---- MODULE Spec2Model ----
(***************************************************************************)
(* A model of script.py: the pairwise playability classifier of packs, the *)
(* module-level match index built by initialize() and write_to_file(), the *)
(* draft strategies and the Monte Carlo evaluator DraftStrategy.test().    *)
(*                                                                         *)
(* A Pack is a record [name, colours, creature_types].  The dataclass      *)
(* declares the two tag fields as sets, and they are modelled as sets.     *)
(***************************************************************************)
EXTENDS Integers, Sequences, FiniteSets, TLC

(***************************************************************************)
(* Bounds of the model.                                                    *)
(***************************************************************************)
\* how many of the five colours the classified packs are drawn over
NumColours == 3
\* how many of the ten creature types the classified packs are drawn over
NumTypes == 3
\* the trial count of test(), range(100000) in the code
Trials == 2
\* how many times test() is called on one strategy instance
MaxCalls == 2

(***************************************************************************)
(* The state.                                                              *)
(***************************************************************************)
VARIABLES
    pack_a,         \* the first pack handed to the classifier
    pack_b,         \* the second pack handed to the classifier
    type_pairs,     \* the synergy index handed to the classifier
    verdict_ab,     \* pack_a.pair_playability(pack_b, type_pairs), once called
    verdict_ba      \* pack_b.pair_playability(pack_a, type_pairs), once called

pair_vars == <<pack_a, pack_b, type_pairs, verdict_ab, verdict_ba>>

VARIABLES
    packs_json,             \* which input/packs.json the run loaded
    STRONG_MATCHES,         \* keys of the pairs classified Strong
    MEDIUM_MATCHES,         \* keys of the pairs classified Medium
    WEAK_MATCHES,           \* keys of the pairs classified Weak
    UNPLAYABLE_MATCHES,     \* keys of the pairs classified Unplayable
    SYNERGISTIC_TYPE_PAIRS, \* the synergy index
    built                   \* whether initialize() or write_to_file() has run

index_vars == <<packs_json, STRONG_MATCHES, MEDIUM_MATCHES, WEAK_MATCHES,
                UNPLAYABLE_MATCHES, SYNERGISTIC_TYPE_PAIRS, built>>

VARIABLES
    strategy,       \* the class of the strategy instance
    results,        \* its self.results, a TotalResults
    pc,             \* "idle", or "test" inside the loop of test()
    trial,          \* iterations of the loop of the running test() done
    calls,          \* calls of test() on the instance that have returned
    draft_result,   \* the DraftResult of the last get_draft_result()
    lookup_misses,  \* the pairs of that call whose key no verdict set held
    drafted_packs,  \* <<what draft() returned in that call>> or <<>>
    looked_up       \* the pairs that call looked up, in order

eval_vars == <<strategy, results, pc, trial, calls>>

draft_vars == <<draft_result, lookup_misses, drafted_packs, looked_up>>

vars == <<pair_vars, index_vars, eval_vars, draft_vars>>

(***************************************************************************)
(* The enumerations (script.py lines 10-44).                               *)
(***************************************************************************)
\* class Colour, in declaration order; the values are the one-letter strings
Colour == <<"W", "U", "B", "R", "G">>

\* class CreatureType, in declaration order
CreatureType == <<"Bird", "Mouse", "Rabbit", "Frog", "Rat", "Squirrel",
                  "Lizard", "Raccoon", "Bat", "Otter">>

\* class Playability
Playability == {"Unplayable", "Weak", "Medium", "Strong"}

ColourTags == {Colour[i] : i \in 1..NumColours}

TypeTags == {CreatureType[i] : i \in 1..NumTypes}

(***************************************************************************)
(* class Pack (script.py lines 47-115).                                    *)
(***************************************************************************)
Pack(name, colours, creature_types) ==
    [name |-> name, colours |-> colours, creature_types |-> creature_types]

matching_types(self, pack_two) ==
    {creature_type \in self.creature_types :
        creature_type \in pack_two.creature_types}

\* synergistic_types without its second filter: the pairs that touch
\* pack_two alone
synergistic_types_pack_two_only(self, pack_two, synergistic_type_pairs) ==
    {type_pair \in synergistic_type_pairs :
        \E creature_type \in pack_two.creature_types :
            creature_type \in type_pair}

synergistic_types(self, pack_two, synergistic_type_pairs) ==
    LET matches_with_pack_two ==
            {type_pair \in synergistic_type_pairs :
                \E creature_type \in pack_two.creature_types :
                    creature_type \in type_pair}
        matches_with_both_packs ==
            {type_pair \in matches_with_pack_two :
                \E creature_type \in self.creature_types :
                    creature_type \in type_pair}
    IN  matches_with_both_packs

matching_colours(self, pack_two) ==
    {colour \in self.colours : colour \in pack_two.colours}

\* Python's max(len(x), len(y))
Max(x, y) == IF x >= y THEN x ELSE y

\* pair_playability with the colour count of self alone in place of the max
\* of both packs' counts
pair_playability_self_only(self, pack_two, synergistic_type_pairs) ==
    IF matching_colours(self, pack_two) # {}
    THEN IF \/ matching_types(self, pack_two) # {}
            \/ synergistic_types(self, pack_two, synergistic_type_pairs) # {}
         THEN "Strong"
         ELSE IF Cardinality(self.colours) = 1
              THEN "Medium"
              ELSE "Weak"
    ELSE IF \/ matching_types(self, pack_two) # {}
            \/ synergistic_types(self, pack_two, synergistic_type_pairs) # {}
         THEN IF Cardinality(self.colours) = 1
              THEN "Medium"
              ELSE "Weak"
         ELSE IF Cardinality(self.colours) = 1
              THEN "Weak"
              ELSE "Unplayable"

pair_playability(self, pack_two, synergistic_type_pairs) ==
    IF matching_colours(self, pack_two) # {}
    THEN IF \/ matching_types(self, pack_two) # {}
            \/ synergistic_types(self, pack_two, synergistic_type_pairs) # {}
         THEN "Strong"
         ELSE IF Max(Cardinality(self.colours),
                     Cardinality(pack_two.colours)) = 1
              THEN "Medium"
              ELSE "Weak"
    ELSE IF \/ matching_types(self, pack_two) # {}
            \/ synergistic_types(self, pack_two, synergistic_type_pairs) # {}
         THEN IF Max(Cardinality(self.colours),
                     Cardinality(pack_two.colours)) = 1
              THEN "Medium"
              ELSE "Weak"
         ELSE IF Max(Cardinality(self.colours),
                     Cardinality(pack_two.colours)) = 1
              THEN "Weak"
              ELSE "Unplayable"

(***************************************************************************)
(* The classifier on its own: two packs and a synergy index are drawn, and *)
(* pair_playability is called on them in both argument orders.             *)
(***************************************************************************)

\* every pack over the bounded tags; the name plays no part in the verdict
ClassifiedPacks(name) ==
    {Pack(name, cs, ts) : cs \in SUBSET ColourTags \ {{}},
                          ts \in SUBSET TypeTags \ {{}}}

\* every unordered pair of two creature types
TypePairs == {tp \in SUBSET TypeTags : Cardinality(tp) = 2}

PairInit ==
    /\ pack_a \in ClassifiedPacks("A")
    /\ pack_b \in ClassifiedPacks("B")
    /\ type_pairs \in SUBSET TypePairs
    /\ verdict_ab = "pending"
    /\ verdict_ba = "pending"

CallForward ==
    /\ verdict_ab = "pending"
    /\ verdict_ab' = pair_playability(pack_a, pack_b, type_pairs)
    /\ UNCHANGED <<pack_a, pack_b, type_pairs, verdict_ba>>
    /\ UNCHANGED <<index_vars, eval_vars, draft_vars>>

CallReverse ==
    /\ verdict_ab # "pending"
    /\ verdict_ba = "pending"
    /\ verdict_ba' = pair_playability(pack_b, pack_a, type_pairs)
    /\ UNCHANGED <<pack_a, pack_b, type_pairs, verdict_ab>>
    /\ UNCHANGED <<index_vars, eval_vars, draft_vars>>

PairNext == CallForward \/ CallReverse

(***************************************************************************)
(* Display labels and the module-level index (script.py lines 53-54 and    *)
(* 130-194).                                                               *)
(***************************************************************************)
\* ''.join(colours): the colour letters of a pack, concatenated in the one
\* order the pack's colours are iterated in, here the declaration order
RECURSIVE join(_, _)
join(colours, i) ==
    IF i > Len(Colour) THEN ""
    ELSE (IF Colour[i] \in colours THEN Colour[i] ELSE "") \o join(colours, i + 1)

\* Pack.__str__
Pack__str__(pack) == join(pack.colours, 1) \o " " \o pack.name

\* packs.json as loaded by get_packs(): the theme packs the comments of
\* pair_playability name
BloomburrowPacks ==
    << Pack("Birds",      {"W", "U"}, {"Bird"}),
       Pack("Brave-Kin",  {"W"},      {"Mouse", "Rabbit"}),
       Pack("Raccoons",   {"G", "R"}, {"Raccoon"}),
       Pack("Frogs",      {"U", "G"}, {"Frog"}),
       Pack("Daggerfang", {"B"},      {"Rat", "Squirrel"}),
       Pack("Treeguard",  {"G"},      {"Frog", "Rabbit"}) >>

\* a packs.json with two variants of one theme: two distinct packs of the
\* same name and colour, differing in their creature types
VariantPacks ==
    << Pack("Lifecreed",  {"W"},      {"Bird", "Bat"}),
       Pack("Lifecreed",  {"W"},      {"Mouse"}),
       Pack("Mice",       {"R", "W"}, {"Mouse", "Lizard"}),
       Pack("Skyskipper", {"U"},      {"Frog", "Bird"}),
       Pack("Lightshell", {"U"},      {"Otter"}),
       Pack("Kindlespark", {"R"},     {"Lizard", "Otter"}) >>

\* a packs.json of seven packs
SevenPacks ==
    << Pack("Birds",      {"W", "U"}, {"Bird"}),
       Pack("Lifecreed",  {"W"},      {"Bird", "Bat"}),
       Pack("Rabbits",    {"G", "W"}, {"Rabbit"}),
       Pack("Mice",       {"R", "W"}, {"Mouse"}),
       Pack("Roughshod",  {"R"},      {"Mouse", "Lizard"}),
       Pack("Daggerfang", {"B"},      {"Rat", "Squirrel"}),
       Pack("Brave-Kin",  {"W"},      {"Mouse", "Rabbit"}) >>




\* the lists the packs are loaded from, and the longest of them
Collections == {BloomburrowPacks, VariantPacks, SevenPacks}

\* get_packs(): the list input/packs.json holds
get_packs ==
    CASE packs_json = "bloomburrow" -> BloomburrowPacks
      [] packs_json = "variants"    -> VariantPacks
      [] packs_json = "seven"       -> SevenPacks
      [] OTHER                      -> <<>>

\* PACKS = get_packs(), the module-level list, never reassigned
PACKS == get_packs

LongestList ==
    CHOOSE n \in {Len(c) : c \in Collections} :
        \A c \in Collections : Len(c) <= n

\* Pack.__str__ of every pack of the lists, tabulated
str_table ==
    [pack \in UNION {{c[p] : p \in 1..Len(c)} : c \in Collections} |->
        Pack__str__(pack)]

\* str(pack)
str(pack) == str_table[pack]

\* frozenset({str(pack_one), str(pack_two)}), the key of a pair in the index
frozenset(pack_one, pack_two) == {str(pack_one), str(pack_two)}

\* the first loop without its test of the colour count
synergy_pairs_of_any_colour(packs, pairs) ==
    pairs \cup {packs[i].creature_types : i \in
                    {i \in 1..Len(packs) :
                        Cardinality(packs[i].creature_types) = 2}}

\* the first loop of initialize() and of write_to_file()
synergy_pairs_of(packs, pairs) ==
    pairs \cup {packs[i].creature_types : i \in
                    {i \in 1..Len(packs) :
                        /\ Cardinality(packs[i].creature_types) = 2
                        /\ Cardinality(packs[i].colours) = 1}}

\* the keys the second loop adds to the set of one verdict: every pack_one
\* at position number (from 1) against every pack_two of packs[number:]
matches_of(packs, pairs, verdict) ==
    {frozenset(packs[number], packs[two]) :
        <<number, two>> \in
            {nt \in (1..Len(packs)) \X (1..Len(packs)) :
                /\ nt[1] < nt[2]
                /\ pair_playability(packs[nt[1]], packs[nt[2]], pairs) = verdict}}

\* initialize(), the whole call
initialize ==
    /\ pc = "idle"
    /\ LET pairs == synergy_pairs_of(PACKS, SYNERGISTIC_TYPE_PAIRS) IN
        /\ SYNERGISTIC_TYPE_PAIRS' = pairs
        /\ STRONG_MATCHES' =
                STRONG_MATCHES \cup matches_of(PACKS, pairs, "Strong")
        /\ MEDIUM_MATCHES' =
                MEDIUM_MATCHES \cup matches_of(PACKS, pairs, "Medium")
        /\ WEAK_MATCHES' =
                WEAK_MATCHES \cup matches_of(PACKS, pairs, "Weak")
        /\ UNPLAYABLE_MATCHES' =
                UNPLAYABLE_MATCHES \cup matches_of(PACKS, pairs, "Unplayable")
    /\ built' = TRUE
    /\ UNCHANGED packs_json
    /\ UNCHANGED <<pair_vars, eval_vars, draft_vars>>

\* write_to_file(), the whole call, as it acts on the module's state;
\* get_packs() reads the file PACKS was loaded from, and the rows written to
\* output/playability_matrix.csv are not part of the state
write_to_file ==
    /\ pc = "idle"
    /\ LET packs == get_packs
           pairs == synergy_pairs_of(packs, SYNERGISTIC_TYPE_PAIRS) IN
        /\ SYNERGISTIC_TYPE_PAIRS' = pairs
        /\ STRONG_MATCHES' =
                STRONG_MATCHES \cup matches_of(packs, pairs, "Strong")
        /\ MEDIUM_MATCHES' =
                MEDIUM_MATCHES \cup matches_of(packs, pairs, "Medium")
        /\ WEAK_MATCHES' =
                WEAK_MATCHES \cup matches_of(packs, pairs, "Weak")
        /\ UNPLAYABLE_MATCHES' =
                UNPLAYABLE_MATCHES \cup matches_of(packs, pairs, "Unplayable")
    /\ built' = TRUE
    /\ UNCHANGED packs_json
    /\ UNCHANGED <<pair_vars, eval_vars, draft_vars>>

(***************************************************************************)
(* The draft strategies (script.py lines 283-313).  A drafted list holds   *)
(* references to the elements of packs: a drafted pack is its position p   *)
(* in packs, and packs[p] is its value.                                    *)
(***************************************************************************)
Strategies == {"DrawThreeStrategy", "DrawFourStrategy", "DrawFiveStrategy",
               "DrawSixStrategy", "DrawThreeTwiceStrategy"}

\* the sequences of k distinct elements of a set
RECURSIVE arrangements(_, _)
arrangements(positions, k) ==
    IF k = 0 THEN {<<>>}
    ELSE UNION {{<<p>> \o tail : tail \in arrangements(positions \ {p}, k - 1)} :
                    p \in positions}

\* arrangements(1..n, k), tabulated for every population size n and every
\* draw size k the strategies use
arrangement_table ==
    [n \in 0..LongestList |-> [k \in 0..6 |-> arrangements(1..n, k)]]

\* random.sample(population, k): every list of the elements at k distinct
\* positions of the population, in any order; no outcome when k exceeds the
\* population (ValueError)
sample(population, k) ==
    {[i \in 1..k |-> population[ps[i]]] :
        ps \in arrangement_table[Len(population)][k]}

\* random.choice(seq)
choice(seq) == {seq[i] : i \in 1..Len(seq)}

Range(seq) == {seq[i] : i \in 1..Len(seq)}

\* the references to the elements of packs, in list order
refs(packs) == [p \in 1..Len(packs) |-> p]

\* the argument of the sample() call of each of the four flat strategies
draw_count(class) ==
    CASE class = "DrawThreeStrategy" -> 3
      [] class = "DrawFourStrategy"  -> 4
      [] class = "DrawFiveStrategy"  -> 5
      [] class = "DrawSixStrategy"   -> 6

\* [pack for pack in packs if pack not in first_three]; "in" compares packs
\* by value
rest_of(packs, first_three) ==
    SelectSeq(refs(packs),
              LAMBDA pack : \A first \in Range(first_three) :
                                packs[pack] # packs[first])

\* what a list strategy returns, as a record [type, pack_one, packs,
\* first_three]: type "list", packs the list, the other two unused and empty
drafted_list(drawn) ==
    [type |-> "list", pack_one |-> <<>>, packs |-> drawn, first_three |-> <<>>]

\* the return with the first three in the place of the second three
drafted_tuple_first_three(first_three, first_pick, second_three) ==
    [type |-> "tuple", pack_one |-> <<first_pick>>, packs |-> first_three,
     first_three |-> first_three]

\* what DrawThreeTwiceStrategy returns: type "tuple", pack_one holding the
\* first pick and packs the second three; first_three is the local of the run
drafted_tuple(first_three, first_pick, second_three) ==
    [type |-> "tuple", pack_one |-> <<first_pick>>, packs |-> second_three,
     first_three |-> first_three]

\* DrawThreeTwiceStrategy.draft(packs): every value it can return
DrawThreeTwiceStrategy_draft(packs) ==
    UNION {{drafted_tuple(first_three, first_pick, second_three) :
                first_pick \in choice(first_three),
                second_three \in sample(rest_of(packs, first_three), 3)} :
            first_three \in sample(refs(packs), 3)}

\* draft(packs) of a strategy class: every value it can return
draft(class, packs) ==
    IF class = "DrawThreeTwiceStrategy"
    THEN DrawThreeTwiceStrategy_draft(packs)
    ELSE {drafted_list(drawn) : drawn \in sample(refs(packs), draw_count(class))}

(***************************************************************************)
(* DraftStrategy.get_draft_result (script.py lines 231-261).  packs is the *)
(* list the drafted references point into.                                 *)
(***************************************************************************)
DraftResult == [strong |-> 0, medium |-> 0, weak |-> 0, unplayable |-> 0]

\* the if/elif chain on one pair: the counter of the first set holding the
\* pair's key goes up; a key in none of the four sets changes no counter.
\* acc carries the draft_result and the pairs looked up so far.
count_pair(acc, pack_one, pack_two, packs, index) ==
    LET pair == frozenset(packs[pack_one], packs[pack_two])
        r == acc.draft_result
        counted ==
            IF pair \in index.strong THEN [r EXCEPT !.strong = @ + 1]
            ELSE IF pair \in index.medium THEN [r EXCEPT !.medium = @ + 1]
            ELSE IF pair \in index.weak THEN [r EXCEPT !.weak = @ + 1]
            ELSE IF pair \in index.unplayable THEN [r EXCEPT !.unplayable = @ + 1]
            ELSE r
    IN  [draft_result |-> counted,
         looked_up |-> Append(acc.looked_up, <<pack_one, pack_two>>)]

\* for pack_two in remaining_packs
RECURSIVE count_remaining(_, _, _, _, _)
count_remaining(acc, pack_one, remaining_packs, packs, index) ==
    IF remaining_packs = <<>> THEN acc
    ELSE count_remaining(
            count_pair(acc, pack_one, Head(remaining_packs), packs, index),
            pack_one, Tail(remaining_packs), packs, index)

\* the loop over the list with remaining_packs = drafted_packs[number - 1:],
\* which starts at pack_one itself
RECURSIVE count_list_from_self(_, _, _, _, _)
count_list_from_self(acc, drafted, number, packs, index) ==
    IF number > Len(drafted) \/ number = Len(drafted) THEN acc
    ELSE count_list_from_self(
            count_remaining(acc, drafted[number],
                            SubSeq(drafted, number, Len(drafted)),
                            packs, index),
            drafted, number + 1, packs, index)

\* for number, pack_one in enumerate(drafted_packs, start=1), leaving the
\* loop at number == len(drafted_packs)
RECURSIVE count_list(_, _, _, _, _)
count_list(acc, drafted, number, packs, index) ==
    IF number > Len(drafted) \/ number = Len(drafted) THEN acc
    ELSE count_list(
            count_remaining(acc, drafted[number],
                            SubSeq(drafted, number + 1, Len(drafted)),
                            packs, index),
            drafted, number + 1, packs, index)

\* the body of get_draft_result after the draft() call
get_draft_result(drafted, packs, index) ==
    LET acc == [draft_result |-> DraftResult, looked_up |-> <<>>] IN
    IF drafted.type = "tuple"
    THEN count_remaining(acc, drafted.pack_one[1], drafted.packs, packs, index)
    ELSE count_list(acc, drafted.packs, 1, packs, index)

\* the four module-level sets as get_draft_result reads them
match_index ==
    [strong |-> STRONG_MATCHES, medium |-> MEDIUM_MATCHES,
     weak |-> WEAK_MATCHES, unplayable |-> UNPLAYABLE_MATCHES]

\* the pairs of a call that hit none of the four sets
misses_of(got) ==
    Len(got.looked_up) - (got.draft_result.strong + got.draft_result.medium
        + got.draft_result.weak + got.draft_result.unplayable)

\* one call of get_draft_result(PACKS) on an instance of a strategy class;
\* the model follows the first such call of a run
get_draft_result_call(s) ==
    /\ pc = "idle"
    /\ drafted_packs = <<>>
    /\ \E drafted \in draft(s, PACKS) :
            LET got == get_draft_result(drafted, PACKS, match_index) IN
            /\ drafted_packs' = <<drafted>>
            /\ draft_result' = got.draft_result
            /\ looked_up' = got.looked_up
            /\ lookup_misses' = misses_of(got)
    /\ strategy' = s
    /\ UNCHANGED <<results, pc, trial, calls>>
    /\ UNCHANGED <<pair_vars, index_vars>>

(***************************************************************************)
(* TotalResults and DraftStrategy.test (script.py lines 197-203, 223-225   *)
(* and 263-280).                                                           *)
(***************************************************************************)
TotalResults ==
    [total_runs |-> 0, strong_or_better |-> 0, medium_or_better |-> 0,
     weak_or_better |-> 0, unplayable_or_better |-> 0]

\* the loop body with medium_or_better counting the trials that hold a
\* Medium pair only
tally_medium_only(r, d) ==
    [total_runs |-> r.total_runs + 1,
     strong_or_better |->
        r.strong_or_better + (IF d.strong # 0 THEN 1 ELSE 0),
     medium_or_better |->
        r.medium_or_better + (IF d.medium # 0 THEN 1 ELSE 0),
     weak_or_better |->
        r.weak_or_better
            + (IF d.strong # 0 \/ d.medium # 0 \/ d.weak # 0 THEN 1 ELSE 0),
     unplayable_or_better |->
        r.unplayable_or_better
            + (IF d.strong # 0 \/ d.medium # 0 \/ d.weak # 0 \/ d.unplayable # 0
               THEN 1 ELSE 0)]

\* the body of the loop of test() after the get_draft_result() call
tally(r, d) ==
    [total_runs |-> r.total_runs + 1,
     strong_or_better |->
        r.strong_or_better + (IF d.strong # 0 THEN 1 ELSE 0),
     medium_or_better |->
        r.medium_or_better + (IF d.strong # 0 \/ d.medium # 0 THEN 1 ELSE 0),
     weak_or_better |->
        r.weak_or_better
            + (IF d.strong # 0 \/ d.medium # 0 \/ d.weak # 0 THEN 1 ELSE 0),
     unplayable_or_better |->
        r.unplayable_or_better
            + (IF d.strong # 0 \/ d.medium # 0 \/ d.weak # 0 \/ d.unplayable # 0
               THEN 1 ELSE 0)]

\* DraftStrategy.__init__ of a new instance of a strategy class
new_strategy(s) ==
    /\ pc = "idle"
    /\ strategy' = s
    /\ results' = TotalResults
    /\ calls' = 0
    /\ UNCHANGED <<pc, trial>>
    /\ UNCHANGED <<pair_vars, index_vars, draft_vars>>

\* test(PACKS) is entered
test_begin ==
    /\ pc = "idle"
    /\ calls < MaxCalls
    /\ pc' = "test"
    /\ trial' = 0
    /\ UNCHANGED <<strategy, results, calls>>
    /\ UNCHANGED <<pair_vars, index_vars, draft_vars>>

\* one iteration of the loop of test(); draft_result is a local of it
test_iteration ==
    /\ pc = "test"
    /\ trial < Trials
    /\ \E drafted \in draft(strategy, PACKS) :
            results' = tally(results,
                get_draft_result(drafted, PACKS, match_index).draft_result)
    /\ trial' = trial + 1
    /\ UNCHANGED <<strategy, pc, calls>>
    /\ UNCHANGED <<pair_vars, index_vars, draft_vars>>

\* the loop of test() is over: return self.results, the object the instance
\* keeps, so that the returned TotalResults is results from here on
test_return ==
    /\ pc = "test"
    /\ trial = Trials
    /\ calls' = calls + 1
    /\ pc' = "idle"
    /\ UNCHANGED <<strategy, results, trial>>
    /\ UNCHANGED <<pair_vars, index_vars, draft_vars>>

(***************************************************************************)
(* The specifications.                                                     *)
(***************************************************************************)
NoPack == Pack("", {}, {})

PairIdle ==
    /\ pack_a = NoPack
    /\ pack_b = NoPack
    /\ type_pairs = {}
    /\ verdict_ab = "pending"
    /\ verdict_ba = "pending"

\* the module as imported: PACKS loaded, the five sets empty
IndexInit(files) ==
    /\ packs_json \in files
    /\ STRONG_MATCHES = {}
    /\ MEDIUM_MATCHES = {}
    /\ WEAK_MATCHES = {}
    /\ UNPLAYABLE_MATCHES = {}
    /\ SYNERGISTIC_TYPE_PAIRS = {}
    /\ built = FALSE

IndexIdle ==
    /\ packs_json = "none"
    /\ STRONG_MATCHES = {}
    /\ MEDIUM_MATCHES = {}
    /\ WEAK_MATCHES = {}
    /\ UNPLAYABLE_MATCHES = {}
    /\ SYNERGISTIC_TYPE_PAIRS = {}
    /\ built = FALSE

\* a strategy instance as constructed
EvalInit ==
    /\ strategy \in Strategies
    /\ results = TotalResults
    /\ pc = "idle"
    /\ trial = 0
    /\ calls = 0

EvalIdle ==
    /\ strategy = "DrawThreeStrategy"
    /\ results = TotalResults
    /\ pc = "idle"
    /\ trial = 0
    /\ calls = 0

DraftInit ==
    /\ draft_result = DraftResult
    /\ lookup_misses = 0
    /\ drafted_packs = <<>>
    /\ looked_up = <<>>

\* the classifier alone
PairSpecInit ==
    /\ PairInit
    /\ IndexIdle
    /\ EvalIdle
    /\ DraftInit

SpecPair == PairSpecInit /\ [][PairNext]_vars

\* the index builds and the evaluator
Init ==
    /\ PairIdle
    /\ IndexInit({"bloomburrow", "variants"})
    /\ EvalInit
    /\ DraftInit

Next ==
    \/ initialize
    \/ write_to_file
    \/ \E s \in Strategies : new_strategy(s)
    \/ test_begin
    \/ test_iteration
    \/ test_return

Spec == Init /\ [][Next]_vars

\* any index builds, then one call of get_draft_result
DraftSpecInit ==
    /\ PairIdle
    /\ IndexInit({"bloomburrow", "variants", "seven"})
    /\ EvalIdle
    /\ DraftInit

DraftNext ==
    \/ drafted_packs = <<>> /\ initialize
    \/ drafted_packs = <<>> /\ write_to_file
    \/ \E s \in Strategies : get_draft_result_call(s)

SpecDraft == DraftSpecInit /\ [][DraftNext]_vars

(***************************************************************************)
(* The classifier (checked under SpecPair).                                *)
(***************************************************************************)
\* C1: for all packs a and b and every synergy index S,
\* a.pair_playability(b, S) and b.pair_playability(a, S) are the same verdict.
C1_PairPlayabilitySymmetric ==
    (verdict_ab # "pending" /\ verdict_ba # "pending") => verdict_ab = verdict_ba

\* both orders were classified, for two packs of different colour counts that
\* share a colour and have no link: the branch that reads the colour counts
C1_Witness ==
    /\ verdict_ab = "Weak"
    /\ verdict_ba # "pending"
    /\ Cardinality(pack_a.colours) = 1
    /\ Cardinality(pack_b.colours) = 2
    /\ pack_a.colours \subseteq pack_b.colours

\* the link of the decision table: a shared creature type, or a synergy pair
\* holding a type of each pack
C2_link(a, b, S) ==
    \/ a.creature_types \cap b.creature_types # {}
    \/ \E type_pair \in S :
        /\ type_pair \cap a.creature_types # {}
        /\ type_pair \cap b.creature_types # {}

\* mono of the decision table: the larger of the two colour counts is 1
C2_mono(a, b) ==
    /\ \A pack \in {a, b} : Cardinality(pack.colours) <= 1
    /\ \E pack \in {a, b} : Cardinality(pack.colours) = 1

C2_table(a, b, S) ==
    IF a.colours \cap b.colours # {}
    THEN CASE C2_link(a, b, S) -> "Strong"
           [] ~C2_link(a, b, S) /\ C2_mono(a, b) -> "Medium"
           [] OTHER -> "Weak"
    ELSE CASE C2_link(a, b, S) /\ C2_mono(a, b) -> "Medium"
           [] C2_link(a, b, S) /\ ~C2_mono(a, b) -> "Weak"
           [] ~C2_link(a, b, S) /\ C2_mono(a, b) -> "Weak"
           [] OTHER -> "Unplayable"

PackPairs == {ij \in (1..Len(PACKS)) \X (1..Len(PACKS)) : ij[1] < ij[2]}

\* the verdict sets holding a key
SetsHolding(key) ==
    {v \in Playability : key \in
        (CASE v = "Strong" -> STRONG_MATCHES
           [] v = "Medium" -> MEDIUM_MATCHES
           [] v = "Weak" -> WEAK_MATCHES
           [] v = "Unplayable" -> UNPLAYABLE_MATCHES)}

AllKeys ==
    STRONG_MATCHES \cup MEDIUM_MATCHES \cup WEAK_MATCHES \cup UNPLAYABLE_MATCHES

\* C3: after initialize() over n distinct packs the four verdict sets hold
\* n*(n-1)/2 entries in all, and the key of every unordered pair of distinct
\* packs is in exactly one set, the one of the pair's pair_playability,
\* whichever pack is named first.
C3_IndexHoldsEveryPairOnce ==
    built =>
        /\ Cardinality(STRONG_MATCHES) + Cardinality(MEDIUM_MATCHES)
            + Cardinality(WEAK_MATCHES) + Cardinality(UNPLAYABLE_MATCHES)
                = (Len(PACKS) * (Len(PACKS) - 1)) \div 2
        /\ \A ij \in PackPairs :
            /\ frozenset(PACKS[ij[1]], PACKS[ij[2]])
                = frozenset(PACKS[ij[2]], PACKS[ij[1]])
            /\ SetsHolding(frozenset(PACKS[ij[1]], PACKS[ij[2]]))
                = {pair_playability(PACKS[ij[1]], PACKS[ij[2]],
                                    SYNERGISTIC_TYPE_PAIRS)}

C5_ReturnedTotalRunsIsTrialCount ==
    (pc = "idle" /\ calls >= 1) => results.total_runs = Trials

\* two distinct packs of PACKS have the same display label
DuplicateLabel ==
    \E ij \in PackPairs :
        /\ PACKS[ij[1]] # PACKS[ij[2]]
        /\ str(PACKS[ij[1]]) = str(PACKS[ij[2]])

\* C8: when two distinct packs have the same display label the index build
\* fails, and the index holds no collapsed key (of one label) and no key that
\* stands for two pairs of packs.
C8_DuplicateLabelIsFatal ==
    DuplicateLabel =>
        /\ ~built
        /\ \A key \in AllKeys :
            /\ Cardinality(key) = 2
            /\ Cardinality({ij \in PackPairs :
                    frozenset(PACKS[ij[1]], PACKS[ij[2]]) = key}) = 1

\* the type pairs {t1, t2} that are the creature types of a single-colour pack
ExactSynergyPairs ==
    {type_pair \in SUBSET Range(CreatureType) :
        /\ Cardinality(type_pair) = 2
        /\ \E p \in 1..Len(PACKS) :
            /\ Cardinality(PACKS[p].colours) = 1
            /\ PACKS[p].creature_types = type_pair}

\* C10: once initialize() or write_to_file() has run, and through every later
\* build and trial, SYNERGISTIC_TYPE_PAIRS is exactly the set of the type
\* pairs that are the two creature types of some single-colour pack.
C10_SynergyIndexExact ==
    built => SYNERGISTIC_TYPE_PAIRS = ExactSynergyPairs

\* a build ran over a list with a two-type pack of two colours, and trials of
\* a test() followed
C10_Witness ==
    /\ built
    /\ SYNERGISTIC_TYPE_PAIRS # {}
    /\ results.unplayable_or_better > 0
    /\ \E p \in 1..Len(PACKS) :
        /\ Cardinality(PACKS[p].creature_types) = 2
        /\ Cardinality(PACKS[p].colours) = 2

(***************************************************************************)
(* One call of get_draft_result (checked under SpecDraft).                 *)
(***************************************************************************)
\* the value draft() returned in the call
Drafted == drafted_packs[1]

\* C6: DrawThreeTwiceStrategy.draft on six or more distinct packs returns a
\* first pick that is one of the first three, and three distinct packs as the
\* second three, none of them among the first three.
C6_SecondThreeDisjoint ==
    (drafted_packs # <<>> /\ Drafted.type = "tuple") =>
        LET first_three == Drafted.first_three
            second_three == Drafted.packs
            first_pick == Drafted.pack_one[1] IN
        /\ Len(first_three) = 3
        /\ Len(second_three) = 3
        /\ PACKS[first_pick] \in {PACKS[p] : p \in Range(first_three)}
        /\ Cardinality({PACKS[p] : p \in Range(second_three)}) = 3
        /\ {PACKS[p] : p \in Range(second_three)}
            \cap {PACKS[p] : p \in Range(first_three)} = {}
        /\ PACKS[first_pick] \notin {PACKS[p] : p \in Range(second_three)}

\* a draw of three twice out of seven packs
C6_Witness ==
    /\ drafted_packs # <<>>
    /\ Drafted.type = "tuple"
    /\ Len(PACKS) = 7
    /\ Drafted.pack_one[1] = Drafted.first_three[3]

\* C7: a pair whose key is in none of the four verdict sets is a fatal error:
\* no call of get_draft_result that met one returned a DraftResult.
C7_LookupMissIsFatal ==
    drafted_packs # <<>> => lookup_misses = 0

\* the lookups of the pair {p, q} among the pairs the call looked up
LookupsOf(p, q) ==
    {m \in 1..Len(looked_up) : {looked_up[m][1], looked_up[m][2]} = {p, q}}

\* C9: one call of get_draft_result looks up, for an (anchor, rest) selection,
\* the pair of the anchor with each member of rest and nothing else, and for
\* a list of k packs each of the k*(k-1)/2 unordered pairs exactly once; with
\* the index built the four counts add up to that number of pairs.
C9_CountsExactlyThePairs ==
    drafted_packs # <<>> =>
        LET k == Len(Drafted.packs)
            counted == draft_result.strong + draft_result.medium
                        + draft_result.weak + draft_result.unplayable IN
        /\ Drafted.type = "tuple" =>
            /\ looked_up = [m \in 1..k |->
                                <<Drafted.pack_one[1], Drafted.packs[m]>>]
            /\ built => counted = k
        /\ Drafted.type = "list" =>
            /\ Len(looked_up) = (k * (k - 1)) \div 2
            /\ \A i \in 1..k : \A j \in (i + 1)..k :
                Cardinality(LookupsOf(Drafted.packs[i], Drafted.packs[j])) = 1
            /\ built => counted = (k * (k - 1)) \div 2

\* a list of five packs was counted against the built index, with pairs of
\* more than one verdict
C9_Witness ==
    /\ drafted_packs # <<>>
    /\ built
    /\ Drafted.type = "list"
    /\ Len(Drafted.packs) = 5
    /\ draft_result.strong > 0
    /\ draft_result.unplayable > 0

====
